---- MODULE Spec2Model ----
(***************************************************************************)
(* ACDCN bootstrap layer: config.py (ACDCNConfig, get_config) and          *)
(* firebase_client.py (FirebaseManager.__new__ / __init__).                *)
(*                                                                         *)
(* Threads call FirebaseManager() and get_config(); every bytecode-level   *)
(* step that reads or writes shared state (the module global _config, the  *)
(* class attributes _instance and _lock, the attributes of the manager     *)
(* object, the log) is one action, so that the interleavings the           *)
(* interpreter allows between them are the interleavings of the model.     *)
(***************************************************************************)
EXTENDS Integers, Sequences, FiniteSets, TLC

\* Number of threads of the concurrent specification.
NThreads == 2
\* Total number of top-level calls (FirebaseManager() or get_config()).
MaxCalls == 2

Threads == 1..NThreads

(***************************************************************************)
(* The settings fields, in declaration order (config.py:16-52).            *)
(***************************************************************************)
FieldOrder ==
    << "firebase_credential_path", "firestore_database_name",
       "kg_synergy_threshold", "max_domain_connections",
       "api_host", "api_port", "batch_size", "max_retry_attempts" >>

Fields == { FieldOrder[i] : i \in DOMAIN FieldOrder }

IntFields == { "max_domain_connections", "api_port", "batch_size",
               "max_retry_attempts" }

FloatFields == { "kg_synergy_threshold" }

StrFields == { "firebase_credential_path", "firestore_database_name",
               "api_host" }

\* A float is kept exactly, as the fraction num/den with den > 0.
Float(n, d) == [num |-> n, den |-> d]

\* Field(default=...) of every field.
FieldDefault ==
    [ firebase_credential_path |-> "firebase-credentials.json",
      firestore_database_name  |-> "(default)",
      kg_synergy_threshold     |-> Float(75, 100),
      max_domain_connections   |-> 50,
      api_host                 |-> "0.0.0.0",
      api_port                 |-> 8000,
      batch_size               |-> 100,
      max_retry_attempts       |-> 3 ]

(***************************************************************************)
(* Coercion of an environment string to the field's declared type.  A raw  *)
(* numeric value is the sequence of its characters.                        *)
(***************************************************************************)
DigitVal ==
    ("0" :> 0) @@ ("1" :> 1) @@ ("2" :> 2) @@ ("3" :> 3) @@ ("4" :> 4) @@
    ("5" :> 5) @@ ("6" :> 6) @@ ("7" :> 7) @@ ("8" :> 8) @@ ("9" :> 9)

IsDigits(s) == Len(s) > 0 /\ \A i \in 1..Len(s) : s[i] \in DOMAIN DigitVal

\* DigitsValue reading the digits from the wrong end.
RECURSIVE DigitsValueReversed(_)
DigitsValueReversed(s) ==
    IF s = <<>> THEN 0
    ELSE 10 * DigitsValueReversed(Tail(s)) + DigitVal[Head(s)]

RECURSIVE DigitsValue(_)
DigitsValue(s) ==
    IF s = <<>> THEN 0
    ELSE 10 * DigitsValue(SubSeq(s, 1, Len(s) - 1)) + DigitVal[s[Len(s)]]

RECURSIVE Pow10(_)
Pow10(k) == IF k = 0 THEN 1 ELSE 10 * Pow10(k - 1)

Unsigned(s) == IF s # <<>> /\ s[1] \in {"-", "+"} THEN Tail(s) ELSE s

Sign(s) == IF s # <<>> /\ s[1] = "-" THEN -1 ELSE 1

\* `api_port: int` and the other int fields: int(v) of the string.
CoerceInt(s) ==
    IF IsDigits(Unsigned(s))
    THEN [ok |-> TRUE, val |-> Sign(s) * DigitsValue(Unsigned(s))]
    ELSE [ok |-> FALSE, val |-> 0]

DotAt(s) == { i \in 1..Len(s) : s[i] = "." }

\* `kg_synergy_threshold: float`: float(v) of the string.
CoerceFloat(s) ==
    LET u == Unsigned(s)
        dots == DotAt(u)
    IN  IF dots = {}
        THEN IF IsDigits(u)
             THEN [ok |-> TRUE, val |-> Float(Sign(s) * DigitsValue(u), 1)]
             ELSE [ok |-> FALSE, val |-> Float(0, 1)]
        ELSE LET d == CHOOSE i \in dots : TRUE
                 whole == SubSeq(u, 1, d - 1)
                 frac == SubSeq(u, d + 1, Len(u))
             IN  IF /\ Cardinality(dots) = 1
                    /\ whole \o frac # <<>>
                    /\ \A i \in 1..Len(whole \o frac) :
                           (whole \o frac)[i] \in DOMAIN DigitVal
                 THEN [ok |-> TRUE,
                       val |-> Float(Sign(s) * DigitsValue(whole \o frac),
                                     Pow10(Len(frac)))]
                 ELSE [ok |-> FALSE, val |-> Float(0, 1)]

\* Type coercion of field f.
Coerce(f, raw) ==
    IF f \in IntFields THEN CoerceInt(raw)
    ELSE IF f \in FloatFields THEN CoerceFloat(raw)
    ELSE [ok |-> TRUE, val |-> raw]

(***************************************************************************)
(* The declared constraints (ge, le, gt, lt).                              *)
(***************************************************************************)
kg_synergy_threshold_ok(v) == v.num >= 0 * v.den /\ v.num <= 1 * v.den

max_domain_connections_ok(v) == v > 0

\* api_port_ok with ge in place of gt.
api_port_ok_ge(v) == v >= 1024 /\ v < 65536

api_port_ok(v) == v > 1024 /\ v < 65536

batch_size_ok(v) == v > 0

max_retry_attempts_ok(v) == v >= 1

Constraint(f, v) ==
    CASE f = "kg_synergy_threshold"   -> kg_synergy_threshold_ok(v)
      [] f = "max_domain_connections" -> max_domain_connections_ok(v)
      [] f = "api_port"               -> api_port_ok(v)
      [] f = "batch_size"             -> batch_size_ok(v)
      [] f = "max_retry_attempts"     -> max_retry_attempts_ok(v)
      [] OTHER                        -> TRUE

(***************************************************************************)
(* Exceptions and ACDCNConfig().  The settings source gives, for every     *)
(* field, <<>> when its ACDCN_ variable is unset and <<raw>> when it is    *)
(* set.  Fields are validated in declaration order; a field whose variable *)
(* is unset takes its default without being validated (neither the         *)
(* validator nor Config asks for defaults to be validated); coercion and   *)
(* constraint failures are collected and raised together at the end as one *)
(* ValidationError; the FileNotFoundError of the credential validator is   *)
(* not a ValueError, so it is not collected: it leaves the constructor at  *)
(* once.                                                                   *)
(***************************************************************************)
NoExc == [kind |-> "none", fields |-> {}, path |-> ""]

ValidationError(fs) == [kind |-> "ValidationError", fields |-> fs, path |-> ""]

FileNotFoundError(v) == [kind |-> "FileNotFoundError", fields |-> {}, path |-> v]

\* str(e), the text handed to logger.critical.
str(e) ==
    IF e.kind = "FileNotFoundError"
    THEN << "Firebase credential file not found at ", e.path,
            ". Generate via: https://console.firebase.google.com/project/_/settings/serviceaccounts/adminsdk" >>
    ELSE << "validation errors for ACDCNConfig", e.fields >>

\* os.path.exists(v) on the file system fs.
exists(v, fs) == v \in fs

\* @validator('firebase_credential_path'): the log records it emits and the
\* exception it raises (NoExc when it returns v).
validate_firebase_credential_path(v, fs) ==
    IF ~exists(v, fs)
    THEN [logs |-> << [event |-> "firebase_credential_missing", path |-> v] >>,
          exc  |-> FileNotFoundError(v)]
    ELSE [logs |-> <<>>, exc |-> NoExc]

Outcome(ok, value, exc, logs) ==
    [ok |-> ok, value |-> value, exc |-> exc, logs |-> logs]

RECURSIVE validate_model(_, _, _, _, _)
validate_model(env, fs, i, values, errors) ==
    IF i > Len(FieldOrder)
    THEN IF errors = {}
         THEN Outcome(TRUE, values, NoExc, <<>>)
         ELSE Outcome(FALSE, FieldDefault, ValidationError(errors), <<>>)
    ELSE LET f == FieldOrder[i] IN
         IF env[f] = <<>>
         THEN validate_model(env, fs, i + 1,
                             [values EXCEPT ![f] = FieldDefault[f]], errors)
         ELSE LET c == Coerce(f, env[f][1]) IN
              IF ~c.ok \/ ~Constraint(f, c.val)
              THEN validate_model(env, fs, i + 1, values, errors \cup {f})
              ELSE IF f = "firebase_credential_path"
              THEN LET r == validate_firebase_credential_path(c.val, fs) IN
                   IF r.exc # NoExc
                   THEN Outcome(FALSE, FieldDefault, r.exc, r.logs)
                   ELSE validate_model(env, fs, i + 1,
                                       [values EXCEPT ![f] = c.val], errors)
              ELSE validate_model(env, fs, i + 1,
                                  [values EXCEPT ![f] = c.val], errors)

\* ACDCNConfig() with the credential check moved behind the checks of all
\* fields: coercion and constraints are judged first, as if the file existed.
ACDCNConfigRangesFirst(env, fs) ==
    LET structural ==
            validate_model(env, fs \cup {env[f][1] : f \in
                               {g \in {"firebase_credential_path"} : env[g] # <<>>}},
                           1, FieldDefault, {})
    IN  IF structural.ok
        THEN validate_model(env, fs, 1, FieldDefault, {})
        ELSE structural

\* ACDCNConfig(): the snapshot, or the exception, with the records logged.
ACDCNConfig(env, fs) == validate_model(env, fs, 1, FieldDefault, {})

\* dict that ignores exclude.
dictAll(snapshot, exclude) == [f \in Fields |-> snapshot[f]]

\* _config.dict(exclude=...)
dict(snapshot, exclude) == [f \in Fields \ exclude |-> snapshot[f]]

(***************************************************************************)
(* The environments and file systems the model draws from.                 *)
(***************************************************************************)
CredFile == "/etc/acdcn/service-account.json"

MissingFile == "/nonexistent/credentials.json"

RawOptions ==
    [ firebase_credential_path |-> { <<>>, <<CredFile>>, <<MissingFile>> },
      firestore_database_name  |-> { <<>>, <<"acdcn-prod">> },
      kg_synergy_threshold     |-> { <<>>, << <<"-","0",".","1">> >>,
                                     << <<"0",".","0">> >>, << <<"0",".","5">> >>,
                                     << <<"1",".","0">> >>, << <<"1",".","5">> >>,
                                     << <<"1">> >> },
      max_domain_connections   |-> { <<>>, << <<"0">> >>, << <<"-","1">> >>,
                                     << <<"7">> >> },
      api_host                 |-> { <<>>, <<"127.0.0.1">> },
      api_port                 |-> { <<>>, << <<"8","0">> >>,
                                     << <<"1","0","2","4">> >>,
                                     << <<"1","0","2","5">> >>,
                                     << <<"9","0","9","0">> >>,
                                     << <<"6","5","5","3","5">> >>,
                                     << <<"6","5","5","3","6">> >>,
                                     << <<"h","t","t","p">> >> },
      batch_size               |-> { <<>>, << <<"0">> >>, << <<"2","5">> >> },
      max_retry_attempts       |-> { <<>>, << <<"0">> >>, << <<"1">> >> } ]

Unset == [f \in Fields |-> <<>>]

SetFields(env) == { f \in Fields : env[f] # <<>> }

\* Every environment that sets at most two variables.
RichEnvs ==
    UNION { { [Unset EXCEPT ![f] = v, ![g] = w] :
                v \in RawOptions[f], w \in RawOptions[g] } :
            f \in Fields, g \in Fields }

\* The environments of the concurrent specification, and the ones the
\* environment can change to while the process runs: the defaults, a valid
\* one, and one with a missing credential file and a bad port.
SmallEnvs ==
    { Unset,
      [Unset EXCEPT !.firebase_credential_path = <<CredFile>>,
                    !.api_port = << <<"9","0","9","0">> >>],
      [Unset EXCEPT !.firebase_credential_path = <<MissingFile>>,
                    !.api_port = << <<"8","0">> >>] }

FileSystems ==
    { {CredFile}, {CredFile, FieldDefault.firebase_credential_path} }

(***************************************************************************)
(* State.                                                                  *)
(***************************************************************************)
VARIABLES
    environ,    \* the settings source (the ACDCN_ variables of the process
                \* environment, then of .env): field -> <<>> or <<raw>>
    files,      \* the paths that exist on disk
    _config,    \* config.py global: 0 is None, else an index of heap
    heap,       \* the ACDCNConfig objects constructed so far
    _instance,  \* FirebaseManager._instance: 0 is None, else an index of managers
    _lock,      \* FirebaseManager._lock: 0 is free, else the holding thread
    managers,   \* the FirebaseManager objects allocated so far
    stats,      \* the _connection_stats dicts created so far
    log,        \* the structlog records emitted so far, by emitting thread
    threads,    \* the threads of this run
    th,         \* per thread: program counter and locals
    result,     \* per thread: what its last finished call returned or raised
    ncalls,     \* number of top-level calls started
    hist        \* history: the references __new__ and get_config have
                \* returned, and how many calls of each thread have raised

vars == << environ, files, _config, heap, _instance, _lock, managers, stats,
           log, threads, th, result, ncalls, hist >>

\* A thread outside any call.
Idle == [pc |-> "idle", self |-> 0, ctx |-> "none",
         fresh |-> 0, exc |-> NoExc, ret |-> 0]

NoResult == [op |-> "none", ok |-> TRUE, val |-> 0, err |-> NoExc]

\* object.__new__(cls): an object with no instance attribute yet.
NewObject ==
    [has_initialized |-> FALSE, _initialized |-> FALSE, _config |-> 0,
     _app |-> "unset", _db |-> "unset", _connection_stats |-> 0]

\* The dict literal of __init__.
NewStats ==
    [last_healthy_check |-> "None", error_count |-> 0, total_operations |-> 0]

InitCommon ==
    /\ _config = 0
    /\ heap = <<>>
    /\ _instance = 0
    /\ _lock = 0
    /\ managers = <<>>
    /\ stats = <<>>
    /\ log = [t \in Threads |-> <<>>]
    /\ th = [t \in Threads |-> Idle]
    /\ result = [t \in Threads |-> NoResult]
    /\ ncalls = 0
    /\ hist = [newReturns |-> {}, cfgReturns |-> {},
               raised |-> [t \in Threads |-> 0]]

Init ==
    /\ environ \in SmallEnvs
    /\ files = {CredFile}
    /\ threads = Threads
    /\ InitCommon

InitSeq ==
    /\ environ \in RichEnvs
    /\ files \in FileSystems
    /\ threads = {1}
    /\ InitCommon

Step(t, pc) == th' = [th EXCEPT ![t].pc = pc]

(***************************************************************************)
(* The callers: a thread outside any call starts FirebaseManager() or      *)
(* get_config().                                                           *)
(***************************************************************************)
CallFirebaseManager(t) ==
    /\ th[t].pc = "idle"
    /\ ncalls < MaxCalls
    /\ ncalls' = ncalls + 1
    /\ th' = [th EXCEPT ![t] = [Idle EXCEPT !.pc = "new_lock"]]
    /\ UNCHANGED << environ, files, _config, heap, _instance, _lock, managers,
                    stats, log, threads, result, hist >>

CallGetConfig(t) ==
    /\ th[t].pc = "idle"
    /\ ncalls < MaxCalls
    /\ ncalls' = ncalls + 1
    /\ th' = [th EXCEPT ![t] = [Idle EXCEPT !.pc = "gc_check",
                                            !.ctx = "direct"]]
    /\ UNCHANGED << environ, files, _config, heap, _instance, _lock, managers,
                    stats, log, threads, result, hist >>

\* The environment changes while the process runs.
ChangeEnvironment ==
    /\ \E e \in SmallEnvs \ {environ} : environ' = e
    /\ UNCHANGED << files, _config, heap, _instance, _lock, managers, stats,
                    log, threads, th, result, ncalls, hist >>

\* The same change, taken only when a thread is about to read the
\* environment: ACDCNConfig() is the only reader, so every run with changes
\* at other moments has the same effect on the program as one of these.
ChangeEnvironmentBeforeRead ==
    /\ \E t \in threads : th[t].pc = "gc_construct"
    /\ ChangeEnvironment

(***************************************************************************)
(* FirebaseManager.__new__                                                 *)
(***************************************************************************)
\* NewAcquire without mutual exclusion: the with block entered whether or
\* not another thread is inside.
NewAcquireNoLock(t) ==
    /\ th[t].pc = "new_lock"
    /\ _lock' = t
    /\ Step(t, "new_check")
    /\ UNCHANGED << environ, files, _config, heap, _instance, managers, stats,
                    log, threads, result, ncalls, hist >>

\* with cls._lock: (enter)
NewAcquire(t) ==
    /\ th[t].pc = "new_lock"
    /\ _lock = 0
    /\ _lock' = t
    /\ Step(t, "new_check")
    /\ UNCHANGED << environ, files, _config, heap, _instance, managers, stats,
                    log, threads, result, ncalls, hist >>

\* if cls._instance is None:
NewCheck(t) ==
    /\ th[t].pc = "new_check"
    /\ Step(t, IF _instance = 0 THEN "new_alloc" ELSE "new_return")
    /\ UNCHANGED << environ, files, _config, heap, _instance, _lock, managers,
                    stats, log, threads, result, ncalls, hist >>

\* cls._instance = super(FirebaseManager, cls).__new__(cls)
\* cls._instance._initialized = False
NewAlloc(t) ==
    /\ th[t].pc = "new_alloc"
    /\ managers' = Append(managers, [NewObject EXCEPT !.has_initialized = TRUE,
                                                      !._initialized = FALSE])
    /\ _instance' = Len(managers) + 1
    /\ Step(t, "new_return")
    /\ UNCHANGED << environ, files, _config, heap, _lock, stats, log, threads,
                    result, ncalls, hist >>

\* return cls._instance, and the lock is released on leaving the with block;
\* __init__ is then called on the returned object.
NewReturn(t) ==
    /\ th[t].pc = "new_return"
    /\ th' = [th EXCEPT ![t].pc = "init_check", ![t].self = _instance]
    /\ _lock' = 0
    /\ hist' = [hist EXCEPT !.newReturns = @ \cup {_instance}]
    /\ UNCHANGED << environ, files, _config, heap, _instance, managers, stats,
                    log, threads, result, ncalls >>

\* The call of thread t is over: it returned val (ok) or raised err.
Finish(t, op, ok, val, err) ==
    /\ th' = [th EXCEPT ![t] = Idle]
    /\ result' = [result EXCEPT ![t] = [op |-> op, ok |-> ok, val |-> val,
                                        err |-> err]]

(***************************************************************************)
(* get_config                                                              *)
(***************************************************************************)
\* GcCheck that ignores the cached snapshot.
GcCheckAlways(t) ==
    /\ th[t].pc = "gc_check"
    /\ Step(t, "gc_construct")
    /\ UNCHANGED << environ, files, _config, heap, _instance, _lock, managers,
                    stats, log, threads, result, ncalls, hist >>

\* if _config is None:
GcCheck(t) ==
    /\ th[t].pc = "gc_check"
    /\ Step(t, IF _config = 0 THEN "gc_construct" ELSE "gc_return")
    /\ UNCHANGED << environ, files, _config, heap, _instance, _lock, managers,
                    stats, log, threads, result, ncalls, hist >>

\* The records of the validator, as the log keeps them.
Tagged(recs) ==
    [i \in DOMAIN recs |-> [event |-> recs[i].event, data |-> recs[i].path]]

\* ACDCNConfig(), the right-hand side of `_config = ACDCNConfig()`
GcConstruct(t) ==
    /\ th[t].pc = "gc_construct"
    /\ LET r == ACDCNConfig(environ, files) IN
       IF r.ok
       THEN /\ heap' = Append(heap, r.value)
            /\ th' = [th EXCEPT ![t].pc = "gc_assign",
                                ![t].fresh = Len(heap) + 1]
            /\ log' = log
       ELSE /\ heap' = heap
            /\ th' = [th EXCEPT ![t].pc = "gc_except", ![t].exc = r.exc]
            /\ log' = [log EXCEPT ![t] = @ \o Tagged(r.logs)]
    /\ UNCHANGED << environ, files, _config, _instance, _lock, managers,
                    stats, threads, result, ncalls, hist >>

\* the store of `_config = ACDCNConfig()`
GcAssign(t) ==
    /\ th[t].pc = "gc_assign"
    /\ _config' = th[t].fresh
    /\ Step(t, "gc_log")
    /\ UNCHANGED << environ, files, heap, _instance, _lock, managers, stats,
                    log, threads, result, ncalls, hist >>

\* logger.info("configuration_loaded", config=_config.dict(exclude={...}))
GcLog(t) ==
    /\ th[t].pc = "gc_log"
    /\ log' = [log EXCEPT ![t] =
                   Append(@, [event |-> "configuration_loaded",
                              data |-> dict(heap[_config],
                                            {"firebase_credential_path"})])]
    /\ Step(t, "gc_return")
    /\ UNCHANGED << environ, files, _config, heap, _instance, _lock, managers,
                    stats, threads, result, ncalls, hist >>

\* except Exception as e: logger.critical("configuration_failed",
\* error=str(e)); raise.  The exception leaves get_config and, when __init__
\* called it, __init__ and FirebaseManager() as well (neither handles it).
GcExcept(t) ==
    /\ th[t].pc = "gc_except"
    /\ log' = [log EXCEPT ![t] =
                   Append(@, [event |-> "configuration_failed",
                              data |-> str(th[t].exc)])]
    /\ Finish(t, IF th[t].ctx = "init" THEN "FirebaseManager" ELSE "get_config",
              FALSE, 0, th[t].exc)
    /\ hist' = [hist EXCEPT !.raised[t] = @ + 1]
    /\ UNCHANGED << environ, files, _config, heap, _instance, _lock, managers,
                    stats, threads, ncalls >>

\* return _config
GcReturn(t) ==
    /\ th[t].pc = "gc_return"
    /\ IF th[t].ctx = "init"
       THEN /\ th' = [th EXCEPT ![t].pc = "init_config", ![t].ret = _config]
            /\ result' = result
       ELSE Finish(t, "get_config", TRUE, _config, NoExc)
    /\ hist' = [hist EXCEPT !.cfgReturns = @ \cup {_config}]
    /\ UNCHANGED << environ, files, _config, heap, _instance, _lock, managers,
                    stats, log, threads, ncalls >>

(***************************************************************************)
(* FirebaseManager.__init__                                                *)
(***************************************************************************)
\* if not hasattr(self, '_initialized') or not self._initialized:
\* the body starts by calling get_config(); otherwise __init__ returns and
\* FirebaseManager() yields the instance.
InitCheck(t) ==
    /\ th[t].pc = "init_check"
    /\ LET m == managers[th[t].self] IN
       IF ~m.has_initialized \/ ~m._initialized
       THEN /\ th' = [th EXCEPT ![t].pc = "gc_check", ![t].ctx = "init"]
            /\ result' = result
       ELSE Finish(t, "FirebaseManager", TRUE, th[t].self, NoExc)
    /\ UNCHANGED << environ, files, _config, heap, _instance, _lock, managers,
                    stats, log, threads, ncalls, hist >>

\* InitConfig that drops the snapshot.
InitConfigSkipped(t) ==
    /\ th[t].pc = "init_config"
    /\ managers' = managers
    /\ Step(t, "init_attrs")
    /\ UNCHANGED << environ, files, _config, heap, _instance, _lock, stats,
                    log, threads, result, ncalls, hist >>

\* self._config = get_config()   (the store)
InitConfig(t) ==
    /\ th[t].pc = "init_config"
    /\ managers' = [managers EXCEPT ![th[t].self]._config = th[t].ret]
    /\ Step(t, "init_attrs")
    /\ UNCHANGED << environ, files, _config, heap, _instance, _lock, stats,
                    log, threads, result, ncalls, hist >>

\* self._app = None; self._db = None; self._connection_stats = {...}
\* (three stores of new values that no code reads back; the dict is a new
\* object each time)
InitAttributes(t) ==
    /\ th[t].pc = "init_attrs"
    /\ stats' = Append(stats, NewStats)
    /\ managers' = [managers EXCEPT
                        ![th[t].self]._app = "None",
                        ![th[t].self]._db = "None",
                        ![th[t].self]._connection_stats = Len(stats) + 1]
    /\ Step(t, "init_done")
    /\ UNCHANGED << environ, files, _config, heap, _instance, _lock, log,
                    threads, result, ncalls, hist >>

\* self._initialized = True, and FirebaseManager() yields the instance
InitSetInitialized(t) ==
    /\ th[t].pc = "init_done"
    /\ managers' = [managers EXCEPT ![th[t].self].has_initialized = TRUE,
                                    ![th[t].self]._initialized = TRUE]
    /\ Finish(t, "FirebaseManager", TRUE, th[t].self, NoExc)
    /\ UNCHANGED << environ, files, _config, heap, _instance, _lock, stats,
                    log, threads, ncalls, hist >>

Next ==
    \/ \E t \in threads :
        \/ CallFirebaseManager(t)
        \/ CallGetConfig(t)
        \/ NewAcquire(t)
        \/ NewCheck(t)
        \/ NewAlloc(t)
        \/ NewReturn(t)
        \/ InitCheck(t)
        \/ GcCheck(t)
        \/ GcConstruct(t)
        \/ GcAssign(t)
        \/ GcLog(t)
        \/ GcExcept(t)
        \/ GcReturn(t)
        \/ InitConfig(t)
        \/ InitAttributes(t)
        \/ InitSetInitialized(t)
    \/ ChangeEnvironmentBeforeRead

\* The same steps, and the environment changing at any moment.
NextSeq == Next \/ ChangeEnvironment

\* NThreads threads racing.
Spec == Init /\ [][Next]_vars

\* One thread, started in any environment of RichEnvs, while the
\* environment changes between and during its calls.
SpecSeq == InitSeq /\ [][NextSeq]_vars

(***************************************************************************)
(* Properties.                                                             *)
(***************************************************************************)
\* The records of thread t with event ev.
LogOf(t, ev) == { i \in DOMAIN log[t] : log[t][i].event = ev }

AllLogOf(ev) == { <<t, i>> \in threads \X (1..(3 * MaxCalls)) :
                    i \in DOMAIN log[t] /\ log[t][i].event = ev }

InFirebaseManager(t) ==
    th[t].pc \in {"init_check", "init_config", "init_attrs", "init_done"}
    \/ th[t].ctx = "init"

\* C1: concurrent first-time FirebaseManager() calls yield one manager: the
\* allocating body of __new__ runs at most once, _instance is assigned at
\* most once, and every call gets the same reference.
C1_OneInstance ==
    /\ Len(managers) <= 1
    /\ _instance = Len(managers)
    /\ Cardinality(hist.newReturns) <= 1
    /\ \A t \in threads :
        /\ th[t].self # 0 => th[t].self = _instance
        /\ result[t].op = "FirebaseManager" /\ result[t].ok
              => result[t].val = _instance

\* Two threads are inside FirebaseManager() at once, both past __new__.
C1_Witness ==
    \E t1 \in threads, t2 \in threads :
        /\ t1 # t2
        /\ th[t1].self # 0 /\ th[t2].self # 0
        /\ InFirebaseManager(t1) /\ InFirebaseManager(t2)

\* C2: the snapshot is constructed at most once despite concurrent first
\* access: ACDCNConfig() is built by one caller only, configuration_loaded is
\* logged once, and every caller returns the same snapshot object.
C2_OneSnapshot ==
    /\ Len(heap) <= 1
    /\ Cardinality(AllLogOf("configuration_loaded")) <= 1
    /\ Cardinality(hist.cfgReturns) <= 1

\* C3: in a single thread, once a call of get_config() has returned a
\* snapshot, nothing is constructed, validated or logged any more and no
\* other snapshot is ever returned, whatever the environment becomes.
C3_Idempotent ==
    [][hist.cfgReturns # {} =>
          /\ _config' = _config
          /\ heap' = heap
          /\ log' = log
          /\ hist'.cfgReturns = hist.cfgReturns
          /\ \A t \in threads :
                /\ th'[t].pc \notin {"gc_construct", "gc_assign", "gc_log",
                                     "gc_except"}
                /\ result'[t] # result[t] /\ result'[t].op = "get_config"
                      => result'[t].ok /\ result'[t].val = _config
      ]_vars

\* Two calls have returned the snapshot, the second one a get_config() made
\* in an environment that ACDCNConfig() would now reject.
C3_Witness ==
    /\ ncalls >= 2
    /\ \A t \in threads : th[t].pc = "idle" /\ hist.raised[t] = 0
    /\ \E t \in threads : /\ result[t].op = "get_config"
                          /\ result[t].ok
                          /\ result[t].val = _config
    /\ ~ACDCNConfig(environ, files).ok

(***************************************************************************)
(* What the raw values of RawOptions mean, written down value by value:    *)
(* the integer a numeric string denotes, and a threshold in hundredths.    *)
(***************************************************************************)
IntOf ==
    (<<"0">> :> 0) @@ (<<"-","1">> :> -1) @@ (<<"7">> :> 7) @@
    (<<"1">> :> 1) @@ (<<"2","5">> :> 25) @@ (<<"8","0">> :> 80) @@
    (<<"1","0","2","4">> :> 1024) @@ (<<"1","0","2","5">> :> 1025) @@
    (<<"9","0","9","0">> :> 9090) @@ (<<"6","5","5","3","5">> :> 65535) @@
    (<<"6","5","5","3","6">> :> 65536)

HundredthsOf ==
    (<<"-","0",".","1">> :> -10) @@ (<<"0",".","0">> :> 0) @@
    (<<"0",".","5">> :> 50) @@ (<<"1",".","0">> :> 100) @@
    (<<"1",".","5">> :> 150) @@ (<<"1">> :> 100)

\* The declared defaults, the threshold in hundredths.
DeclaredDefault ==
    [ firebase_credential_path |-> "firebase-credentials.json",
      firestore_database_name  |-> "(default)",
      kg_synergy_threshold     |-> 75,
      max_domain_connections   |-> 50,
      api_host                 |-> "0.0.0.0",
      api_port                 |-> 8000,
      batch_size               |-> 100,
      max_retry_attempts       |-> 3 ]

IsSet(env, f) == env[f] # <<>>

\* Field f is set to a number, which satisfies P.
IntIs(env, f, P(_)) ==
    IsSet(env, f) /\ env[f][1] \in DOMAIN IntOf /\ P(IntOf[env[f][1]])

ThresholdIs(env, P(_)) ==
    /\ IsSet(env, "kg_synergy_threshold")
    /\ env.kg_synergy_threshold[1] \in DOMAIN HundredthsOf
    /\ P(HundredthsOf[env.kg_synergy_threshold[1]])

\* Some numeric variable is set to a number outside its declared range.
OutOfRange(env) ==
    \/ ThresholdIs(env, LAMBDA x : x < 0 \/ x > 100)
    \/ IntIs(env, "api_port", LAMBDA x : ~(x > 1024 /\ x < 65536))
    \/ \E f \in {"max_domain_connections", "batch_size", "max_retry_attempts"} :
          IntIs(env, f, LAMBDA x : x <= 0)

\* Every numeric variable that is set is a number within its declared range.
AllInRange(env) ==
    /\ IsSet(env, "kg_synergy_threshold")
          => ThresholdIs(env, LAMBDA x : x >= 0 /\ x <= 100)
    /\ IsSet(env, "api_port")
          => IntIs(env, "api_port", LAMBDA x : x > 1024 /\ x < 65536)
    /\ \A f \in {"max_domain_connections", "batch_size", "max_retry_attempts"} :
          IsSet(env, f) => IntIs(env, f, LAMBDA x : x > 0)

\* The credential path the environment configures.
ConfiguredPath(env) ==
    IF IsSet(env, "firebase_credential_path")
    THEN env.firebase_credential_path[1]
    ELSE "firebase-credentials.json"

\* Snapshot s holds, field by field, what env says (or the default).
Reflects(s, env) ==
    /\ DOMAIN s = Fields
    /\ \A f \in StrFields :
          s[f] = IF IsSet(env, f) THEN env[f][1] ELSE DeclaredDefault[f]
    /\ \A f \in IntFields :
          s[f] = IF IsSet(env, f) THEN IntOf[env[f][1]] ELSE DeclaredDefault[f]
    /\ s.kg_synergy_threshold.den > 0
    /\ 100 * s.kg_synergy_threshold.num =
          s.kg_synergy_threshold.den *
            (IF IsSet(env, "kg_synergy_threshold")
             THEN HundredthsOf[env.kg_synergy_threshold[1]]
             ELSE DeclaredDefault.kg_synergy_threshold)

\* Snapshot s is within the declared ranges.
SnapshotInRange(s) ==
    /\ s.kg_synergy_threshold.num >= 0
    /\ s.kg_synergy_threshold.num <= s.kg_synergy_threshold.den
    /\ s.api_port > 1024 /\ s.api_port < 65536
    /\ s.max_domain_connections > 0
    /\ s.batch_size > 0
    /\ s.max_retry_attempts > 0

\* Thread t evaluates ACDCNConfig() in this step.
Constructs(t) == th[t].pc = "gc_construct" /\ th'[t].pc # "gc_construct"

\* Thread t's call ends in this step by raising e out of get_config().
Raises(t, e) ==
    /\ th'[t].pc = "idle"
    /\ result'[t].ok = FALSE
    /\ result'[t].err = e

\* C4: fail-fast on range violations.  When a numeric variable is out of
\* range (threshold outside [0,1], port not strictly between 1024 and 65536,
\* a count <= 0), ACDCNConfig() raises, get_config() logs
\* configuration_failed and raises that error, _config stays None; and no
\* snapshot outside the ranges ever exists.
C4_FailFast ==
    /\ [](\A i \in DOMAIN heap : SnapshotInRange(heap[i]))
    /\ [][\A t \in threads :
            /\ Constructs(t) /\ OutOfRange(environ)
                  => /\ th'[t].pc = "gc_except"
                     /\ th'[t].exc # NoExc
                     /\ heap' = heap
                     /\ _config = 0 /\ _config' = 0
            /\ th[t].pc = "gc_except" /\ th'[t].pc # "gc_except"
                  => /\ Raises(t, th[t].exc)
                     /\ log'[t] = Append(log[t],
                                         [event |-> "configuration_failed",
                                          data |-> str(th[t].exc)])
                     /\ heap' = heap
                     /\ _config = 0 /\ _config' = 0
       ]_vars

\* get_config() has failed on ACDCN_API_PORT=1024: the port is named in the
\* error, configuration_failed is the last record, and _config is None.
C4_Witness ==
    \E t \in threads :
        /\ th[t].pc = "idle"
        /\ environ.api_port = << <<"1","0","2","4">> >>
        /\ result[t].op = "get_config"
        /\ ~result[t].ok
        /\ result[t].err.kind = "ValidationError"
        /\ "api_port" \in result[t].err.fields
        /\ log[t] # <<>>
        /\ log[t][Len(log[t])].event = "configuration_failed"
        /\ _config = 0
        /\ heap = <<>>

\* Every variable that is set is in range and the credential file exists.
ValidEnvironment(env, fs) ==
    /\ AllInRange(env)
    /\ ConfiguredPath(env) \in fs

\* C5: in a valid environment with the credential file present,
\* get_config() returns a snapshot whose fields are the coerced values of
\* the variables that are set and the declared defaults of the others.
C5_ValuesFromEnvironment ==
    [][\A t \in threads :
          /\ Constructs(t) /\ ValidEnvironment(environ, files)
                => /\ th'[t].pc = "gc_assign"
                   /\ heap' = Append(heap, heap'[Len(heap')])
                   /\ th'[t].fresh = Len(heap')
                   /\ Reflects(heap'[Len(heap')], environ)
          /\ th[t].pc = "gc_return" /\ th'[t].pc # "gc_return"
             /\ th[t].fresh # 0
                => IF th[t].ctx = "init"
                   THEN th'[t].ret = th[t].fresh
                   ELSE /\ result'[t].ok
                        /\ result'[t].op = "get_config"
                        /\ result'[t].val = th[t].fresh
      ]_vars

\* ACDCN_API_PORT=9090 with the credential file present: get_config() has
\* returned a snapshot with api_port 9090 and the default api_host.
C5_Witness ==
    \E t \in threads :
        /\ environ = [Unset EXCEPT !.firebase_credential_path = <<CredFile>>,
                                   !.api_port = << <<"9","0","9","0">> >>]
        /\ result[t].op = "get_config"
        /\ result[t].ok
        /\ result[t].val \in DOMAIN heap
        /\ heap[result[t].val].api_port = 9090
        /\ heap[result[t].val].api_host = "0.0.0.0"
        /\ heap[result[t].val].firebase_credential_path = CredFile

CredentialSetAndMissing(env, fs) ==
    IsSet(env, "firebase_credential_path") /\ ConfiguredPath(env) \notin fs

Last(S) == CHOOSE i \in S : \A j \in S : j <= i

\* C8: a configuration_loaded record carries every field of a snapshot
\* except firebase_credential_path; every failed call has emitted exactly
\* one configuration_failed record, carrying the error it raised.
C8_LogRecords ==
    \A t \in threads :
        /\ \A i \in LogOf(t, "configuration_loaded") :
              /\ DOMAIN log[t][i].data = Fields \ {"firebase_credential_path"}
              /\ \E j \in DOMAIN heap :
                    \A f \in DOMAIN log[t][i].data :
                        log[t][i].data[f] = heap[j][f]
        /\ Cardinality(LogOf(t, "configuration_failed")) = hist.raised[t]
        /\ ~result[t].ok
              => /\ LogOf(t, "configuration_failed") # {}
                 /\ log[t][Last(LogOf(t, "configuration_failed"))].data
                       = str(result[t].err)

\* A thread has had a call fail and a later call load the configuration.
C8_Witness ==
    \E t \in threads :
        /\ LogOf(t, "configuration_failed") # {}
        /\ LogOf(t, "configuration_loaded") # {}
        /\ th[t].pc = "idle"
        /\ result[t].ok

\* C9: once the body of __init__ has run (_initialized is True), no call
\* runs it again or replaces _config, _app, _db or _connection_stats.
C9_NeverReset ==
    [][\A m \in DOMAIN managers :
          managers[m]._initialized
             => /\ managers'[m]._config = managers[m]._config
                /\ managers'[m]._app = managers[m]._app
                /\ managers'[m]._db = managers[m]._db
                /\ managers'[m]._connection_stats
                      = managers[m]._connection_stats
                /\ stats' = stats
      ]_vars

\* C10: a manager marked initialised holds a snapshot that get_config()
\* returned, and stays initialised; a FirebaseManager() call in which
\* get_config() raises ends with that error and leaves the instance
\* uninitialised; a call that finds the instance uninitialised works on the
\* singleton and attempts the initialisation again.
C10_InitializedHasConfig ==
    /\ [](\A m \in DOMAIN managers :
            managers[m]._initialized
               => /\ managers[m]._config \in hist.cfgReturns
                  /\ managers[m]._config \in DOMAIN heap)
    /\ [][/\ \A m \in DOMAIN managers :
                managers[m]._initialized => managers'[m]._initialized
          /\ \A t \in threads :
                /\ th[t].pc = "gc_except" /\ th'[t].pc # "gc_except"
                   /\ th[t].ctx = "init"
                      => /\ Raises(t, th[t].exc)
                         /\ result'[t].op = "FirebaseManager"
                         /\ managers' = managers
                         /\ ~managers[th[t].self]._initialized
                /\ th[t].pc = "init_check" /\ th'[t].pc # "init_check"
                   /\ ~managers[th[t].self]._initialized
                      => /\ th[t].self = _instance
                         /\ th'[t].pc = "gc_check"
                         /\ th'[t].ctx = "init"
       ]_vars

\* FirebaseManager() has raised, the instance is uninitialised, and the
\* next call has received the same instance and is constructing the
\* configuration again.
C10_Witness ==
    \E t \in threads :
        /\ result[t].op = "FirebaseManager"
        /\ ~result[t].ok
        /\ th[t].pc = "gc_construct"
        /\ th[t].ctx = "init"
        /\ th[t].self = _instance
        /\ Len(managers) = 1
        /\ ~managers[_instance]._initialized

\* C10 without its middle part, for racing threads: a manager marked
\* initialised holds a returned snapshot and stays initialised, and a call
\* in which get_config() raises changes no manager.
InitializedHasConfigConcurrently ==
    /\ [](\A m \in DOMAIN managers :
            managers[m]._initialized
               => /\ managers[m]._config \in hist.cfgReturns
                  /\ managers[m]._config \in DOMAIN heap)
    /\ [][/\ \A m \in DOMAIN managers :
                managers[m]._initialized => managers'[m]._initialized
          /\ \A t \in threads :
                th[t].pc = "gc_except" /\ th'[t].pc # "gc_except"
                   => managers' = managers
       ]_vars

====
